---- MODULE Spec2Model ----
(***************************************************************************)
(* Drift detection engine of src/src/monitoring/drift_detector.py:         *)
(* calculate_psi, compare_distributions and the DriftDetector class        *)
(* (calculate_feature_drift, compare_performance, detect_drift,            *)
(* _generate_alerts), driven by a sequential caller.                       *)
(*                                                                         *)
(* Floats are fixed-point numbers with Scale units per 1.0, wrapped in a   *)
(* record so that NaN is a value of its own: [nan |-> TRUE] compares false *)
(* with everything, as IEEE NaN does.  Float rounding below 1/Scale is not *)
(* modelled.                                                               *)
(***************************************************************************)
EXTENDS Integers, Sequences, FiniteSets, TLC

\* ------------------------------------------------------------------ state
\* The three thresholds of the DriftDetector, and the caller: pc is "idle" or
\* "returned", call is the call made last and result what it gave back;
\* routine is what the scipy.stats routine did inside a direct call of
\* compare_distributions.
\* Concurrent invocations on the one detector: frames[i] holds the position
\* and the local variables of invocation i, lists[i] the list object its
\* _generate_alerts appends to, previous a call that returned earlier.
\* report_json is the document scripts/detect_drift.py wrote for the report.
\* The serving layer: disk is what the model directory holds, main_app the
\* globals of src/api/main.py, loader the process-wide ModelLoader of
\* src/api/dependencies.py, response the answer to the last request.
VARIABLES psi_threshold, accuracy_degradation_threshold,
          accuracy_critical_threshold, pc, call, result, routine,
          frames, lists, previous, report_json,
          disk, main_app, loader, response

vars == <<psi_threshold, accuracy_degradation_threshold,
          accuracy_critical_threshold, pc, call, result, routine,
          frames, lists, previous, report_json,
          disk, main_app, loader, response>>
config == <<psi_threshold, accuracy_degradation_threshold,
            accuracy_critical_threshold>>
caller == <<pc, call, result, routine>>
invocations == <<frames, lists, previous>>
serving == <<disk, main_app, loader, response>>

\* ---------------------------------------------------------------- bounds
\* Longest sample (and the row count of every non-empty dataset).
MaxLen == 4
\* How many invocations run on the one detector at a time.
Concurrency == 2
\* the joblib.load calls on the model file that are followed
MaxReads == 3
\* the longest batch sent
MaxSamples == 1

\* ------------------------------------------------------- fixed-point floats
Scale == 10 * 10 * 10

F(v) == [nan |-> FALSE, v |-> v]
NaN == [nan |-> TRUE, v |-> 0]

Gt(x, y) == (~x.nan) /\ (~y.nan) /\ x.v > y.v
Ge(x, y) == (~x.nan) /\ (~y.nan) /\ x.v >= y.v
Lt(x, y) == (~x.nan) /\ (~y.nan) /\ x.v < y.v
Ne(x, y) == x.nan \/ y.nan \/ x.v # y.v

FSub(x, y) == IF x.nan \/ y.nan THEN NaN ELSE F(x.v - y.v)
\* x / y * 100 (y is never 0 where the code divides)
FPct(x, y) == IF x.nan \/ y.nan THEN NaN ELSE F((x.v * 100 * Scale) \div y.v)
\* t * 100
FTimes100(t) == IF t.nan THEN NaN ELSE F(t.v * 100)

Abs(i) == IF i < 0 THEN -i ELSE i
MinOf(S) == CHOOSE m \in S : \A o \in S : m <= o
MaxOf(S) == CHOOSE m \in S : \A o \in S : m >= o

RECURSIVE SumSeq(_)
SumSeq(s) == IF s = <<>> THEN 0 ELSE Head(s) + SumSeq(Tail(s))

RECURSIVE SqrtBisect(_, _, _)
SqrtBisect(x, lo, hi) ==
    IF lo >= hi THEN lo
    ELSE LET mid == (lo + hi + 1) \div 2
         IN  IF mid * mid <= x THEN SqrtBisect(x, mid, hi)
             ELSE SqrtBisect(x, lo, mid - 1)
ISqrt(x) == SqrtBisect(x, 0, 46340)

\* ------------------------------------------------------------- samples
\* An entry of a pandas Series: a number, a missing value (NaN/None), or a
\* non-numeric (categorical) value in an object-typed column.
Missing == 0 - 1
Cat == 0 - 2
Numbers == {0, 1}

RECURSIVE SortedSeqs(_, _)
\* the non-decreasing sequences of length n over the integers V
SortedSeqs(V, n) ==
    IF n = 0 THEN {<<>>}
    ELSE UNION {{<<x>> \o t : t \in {u \in SortedSeqs(V, n - 1) :
                                          u = <<>> \/ x <= Head(u)}} : x \in V}

NumericSamples == UNION {SortedSeqs(Numbers \cup {Missing}, n) : n \in 0..MaxLen}
\* a column of mixed strings and numbers
CatSamples == {<<Cat>> \o [i \in 1..(MaxLen - 1) |-> 1]}
Samples == NumericSamples \cup CatSamples

dropna(s) == SelectSeq(s, LAMBDA v : v # Missing)
HasCat(s) == \E i \in 1..Len(s) : s[i] = Cat
Elems(s) == {s[i] : i \in 1..Len(s)}
CountIn(s, P(_)) == Len(SelectSeq(s, P))

\* ------------------------------------------------------------ calculate_psi
bins_default == 10

\* round(ln(k) * 1000) for k = 1..64
LnTable == <<0, 693, 1099, 1386, 1609, 1792, 1946, 2079, 2197, 2303, 2398, 2485,
             2565, 2639, 2708, 2773, 2833, 2890, 2944, 2996, 3045, 3091, 3135,
             3178, 3219, 3258, 3296, 3332, 3367, 3401, 3434, 3466, 3497, 3526,
             3555, 3584, 3611, 3638, 3664, 3689, 3714, 3738, 3761, 3784, 3807,
             3829, 3850, 3871, 3892, 3912, 3932, 3951, 3970, 3989, 4007, 4025,
             4043, 4060, 4078, 4094, 4111, 4127, 4143, 4159>>
LnInt(k) == (LnTable[k] * Scale) \div 1000
\* ln(1e-6) = -ln(10^6)
LnEpsilon == -((13816 * Scale) \div 1000)
\* epsilon = 1e-6 in fixed point
epsilon == Scale \div 1000000

\* np.histogram over np.linspace(min_val, max_val, bins + 1): the index
\* (0-based) of the bin of v; the last bin is closed on the right.
BinOf(v, min_val, max_val, bins) ==
    IF v = max_val THEN bins - 1
    ELSE ((v - min_val) * bins) \div (max_val - min_val)

Histogram(clean, min_val, max_val, bins) ==
    [b \in 0..(bins - 1) |->
        CountIn(clean, LAMBDA v : BinOf(v, min_val, max_val, bins) = b)]

\* counts / len, with np.where(probs == 0, epsilon, probs)
Prob(count, n) == IF count = 0 THEN epsilon ELSE (count * Scale) \div n
\* ln of that probability
LnProb(count, n) == IF count = 0 THEN LnEpsilon ELSE LnInt(count) - LnInt(n)

\* line 68 without its parentheses: actual_probs - expected_probs * np.log(...)
PsiTerm_unparenthesised(ec, en, ac, an) ==
    Prob(ac, an) - (Prob(ec, en) * (LnProb(ac, an) - LnProb(ec, en))) \div Scale

\* line 68 with the difference taken the other way round
PsiTerm_swapped(ec, en, ac, an) ==
    IF ec * an = ac * en THEN 0
    ELSE ((Prob(ec, en) - Prob(ac, an)) * (LnProb(ac, an) - LnProb(ec, en))) \div Scale

\* (actual_probs - expected_probs) * np.log(actual_probs / expected_probs)
PsiTerm(ec, en, ac, an) ==
    IF ec * an = ac * en THEN 0
    ELSE ((Prob(ac, an) - Prob(ec, en)) * (LnProb(ac, an) - LnProb(ec, en))) \div Scale

RECURSIVE SumBins(_, _)
SumBins(f, b) == IF b < 0 THEN 0 ELSE f[b] + SumBins(f, b - 1)

\* lines 52-68: both samples binned over [min_val, max_val], then the sum
psi_sum(expected_clean, actual_clean, min_val, max_val, bins) ==
    LET expected_counts == Histogram(expected_clean, min_val, max_val, bins)
        actual_counts == Histogram(actual_clean, min_val, max_val, bins)
        terms == [b \in 0..(bins - 1) |->
                    PsiTerm(expected_counts[b], Len(expected_clean),
                            actual_counts[b], Len(actual_clean))]
    IN  F(SumBins(terms, bins - 1))

\* lines 35-50 with the zero-variance rule tried before the empty check
calculate_psi_variance_first(expected, actual, bins) ==
    LET expected_clean == dropna(expected)
        actual_clean == dropna(actual)
        all == Elems(expected_clean) \cup Elems(actual_clean)
    IN  IF all # {} /\ Cat \notin all /\ MinOf(all) = MaxOf(all) THEN F(0)
        ELSE IF Len(expected_clean) = 0 \/ Len(actual_clean) = 0 THEN NaN
        ELSE IF HasCat(expected_clean) \/ HasCat(actual_clean) THEN NaN
        ELSE psi_sum(expected_clean, actual_clean, MinOf(all), MaxOf(all), bins)

\* lines 44-50 taking a zero-variance pair for one that cannot be measured
calculate_psi_degenerate_nan(expected, actual, bins) ==
    LET expected_clean == dropna(expected)
        actual_clean == dropna(actual)
        all == Elems(expected_clean) \cup Elems(actual_clean)
    IN  IF Len(expected_clean) = 0 \/ Len(actual_clean) = 0 THEN NaN
        ELSE IF HasCat(expected_clean) \/ HasCat(actual_clean) THEN NaN
        ELSE IF MinOf(all) = MaxOf(all) THEN NaN
        ELSE psi_sum(expected_clean, actual_clean, MinOf(all), MaxOf(all), bins)

calculate_psi(expected, actual, bins) ==
    LET expected_clean == dropna(expected)
        actual_clean == dropna(actual)
    IN  IF Len(expected_clean) = 0 \/ Len(actual_clean) = 0 THEN NaN
        \* min()/max() over values of mixed types raise TypeError, caught below
        ELSE IF HasCat(expected_clean) \/ HasCat(actual_clean) THEN NaN
        ELSE LET all == Elems(expected_clean) \cup Elems(actual_clean)
                 min_val == MinOf(all)
                 max_val == MaxOf(all)
             IN  IF min_val = max_val THEN F(0)
                 ELSE psi_sum(expected_clean, actual_clean, min_val, max_val, bins)

\* ---------------------------------------------------- compare_distributions
\* What a call gives back: a value, or an exception that reaches the caller.
Returned(v) == [kind |-> "return", exc |-> "none", value |-> v]
Raised(e) == [kind |-> "raise", exc |-> e, value |-> <<>>]

\* What a scipy.stats routine gives back to compare_distributions.
TestResult(statistic, p_value) == [exc |-> "none", statistic |-> statistic, p_value |-> p_value]
TestError(e) == [exc |-> e, statistic |-> NaN, p_value |-> NaN]

RECURSIVE GCD(_, _)
GCD(a, b) == IF b = 0 THEN a ELSE GCD(b, a % b)

RECURSIVE Binomial(_, _)
Binomial(n, k) == IF k = 0 \/ k = n THEN 1 ELSE Binomial(n - 1, k - 1) + Binomial(n - 1, k)

RECURSIVE PathsInside(_, _, _, _, _)
\* lattice paths from (0,0) to (i,j) on which |x*n2g - y*n1g| < h throughout
PathsInside(i, j, n1g, n2g, h) ==
    IF Abs(i * n2g - j * n1g) >= h THEN 0
    ELSE IF i = 0 /\ j = 0 THEN 1
    ELSE (IF i > 0 THEN PathsInside(i - 1, j, n1g, n2g, h) ELSE 0)
       + (IF j > 0 THEN PathsInside(i, j - 1, n1g, n2g, h) ELSE 0)

\* stats.ks_2samp(data1, data2): two-sided, exact p-value (the samples are
\* far below the size where scipy switches to the asymptotic formula).
ks_2samp(data1, data2) ==
    IF HasCat(data1) \/ HasCat(data2) THEN TestError("TypeError")
    ELSE LET n1 == Len(data1)
             n2 == Len(data2)
             g == GCD(n1, n2)
             lcm == (n1 \div g) * n2
             dev(x) == CountIn(data1, LAMBDA v : v <= x) * n2
                       - CountIn(data2, LAMBDA v : v <= x) * n1
             h == MaxOf({Abs(dev(x)) : x \in Elems(data1) \cup Elems(data2)}) \div g
             total == Binomial(n1 + n2, n1)
             inside == PathsInside(n1, n2, n1 \div g, n2 \div g, h)
         IN  IF h = 0 THEN TestResult(F(0), F(Scale))
             ELSE TestResult(F((h * Scale) \div lcm),
                             F(((total - inside) * Scale) \div total))

\* p-values a routine whose distribution is not computed here may report
PValueGrid == {F(Scale \div 100), F((5 * Scale) \div 100), F(Scale \div 2), F(Scale)}

\* stats.mannwhitneyu(x, y, alternative='two-sided'): the U statistic of x is
\* computed; the p-value (normal approximation with tie correction) is any
\* value of the grid.  SciPy before 1.7 raises ValueError("All numbers are
\* identical in mannwhitneyu") when every value is the same, later versions
\* report p = 1.
mannwhitneyu(x, y) ==
    IF HasCat(x) \/ HasCat(y) THEN {TestError("TypeError")}
    ELSE LET u2 == SumSeq([i \in 1..Len(x) |->
                      2 * CountIn(y, LAMBDA w : w < x[i]) + CountIn(y, LAMBDA w : w = x[i])])
             U == F((u2 * Scale) \div 2)
         IN  IF Cardinality(Elems(x) \cup Elems(y)) = 1
             THEN {TestError("ValueError"), TestResult(U, F(Scale))}
             ELSE {TestResult(U, p) : p \in PValueGrid}

\* the significance level of line 116
alpha == (5 * Scale) \div 100

UndefinedResult == [statistic |-> NaN, p_value |-> NaN, significant |-> FALSE]

\* lines 108-133 with line 116 reading p_value <= 0.05
AfterTest_inclusive(r) ==
    IF r.exc = "none"
    THEN Returned([statistic |-> r.statistic, p_value |-> r.p_value,
                   significant |-> ~Gt(r.p_value, F(alpha)) /\ ~r.p_value.nan])
    ELSE IF r.exc = "ValueError" THEN Raised("ValueError")
    ELSE Returned(UndefinedResult)

\* lines 108-133, given what the routine did
AfterTest(r) ==
    IF r.exc = "none"
    THEN Returned([statistic |-> r.statistic, p_value |-> r.p_value,
                   significant |-> Lt(r.p_value, F(alpha))])
    ELSE IF r.exc = "ValueError" THEN Raised("ValueError")
    ELSE Returned(UndefinedResult)

\* the routine was not reached
NotCalled == [exc |-> "not called", statistic |-> NaN, p_value |-> NaN]

\* What the routine of lines 108-113 can do on the cleaned samples.
test_outcomes(baseline_clean, current_clean, test_type) ==
    IF Len(baseline_clean) = 0 \/ Len(current_clean) = 0 THEN {NotCalled}
    ELSE IF test_type = "ks" THEN {ks_2samp(baseline_clean, current_clean)}
    ELSE IF test_type = "mannwhitney" THEN mannwhitneyu(baseline_clean, current_clean)
    ELSE {NotCalled}

\* lines 93-126 without the empty-sample check of lines 97-102: the routine
\* is called on the empty sample and its ValueError is re-raised
compare_distributions_unchecked(baseline, current, test_type, r) ==
    IF test_type \notin {"ks", "mannwhitney"} THEN Raised("ValueError")
    ELSE IF Len(dropna(baseline)) = 0 \/ Len(dropna(current)) = 0
    THEN AfterTest(TestError("ValueError"))
    ELSE AfterTest(r)

\* compare_distributions(baseline, current, test_type), where r is what the
\* routine does if the call reaches it.
compare_distributions(baseline, current, test_type, r) ==
    LET baseline_clean == dropna(baseline)
        current_clean == dropna(current)
    IN  IF Len(baseline_clean) = 0 \/ Len(current_clean) = 0
        THEN Returned(UndefinedResult)
        ELSE IF test_type \notin {"ks", "mannwhitney"}
        THEN Raised("ValueError")
        ELSE AfterTest(r)

\* ------------------------------------------------------------------ dicts
\* A Python dict built by the code: its (key, value) pairs in insertion order.
DictHas(d, k) == \E i \in 1..Len(d) : d[i][1] = k
DictGet(d, k) == d[CHOOSE i \in 1..Len(d) : d[i][1] = k][2]
DictSet(d, k, v) ==
    IF DictHas(d, k)
    THEN [i \in 1..Len(d) |-> IF d[i][1] = k THEN <<k, v>> ELSE d[i]]
    ELSE Append(d, <<k, v>>)
DictKeys(d) == [i \in 1..Len(d) |-> d[i][1]]
DictValues(d) == [i \in 1..Len(d) |-> d[i][2]]

\* -------------------------------------------------- calculate_feature_drift
\* Series.mean(): missing values are skipped; NaN when nothing is left
mean(series) ==
    LET clean == dropna(series)
    IN  IF Len(clean) = 0 THEN NaN ELSE F((SumSeq(clean) * Scale) \div Len(clean))

\* Series.std(): sample standard deviation (ddof = 1), NaN below two values
std(series) ==
    LET clean == dropna(series)
        n == Len(clean)
        sum == SumSeq(clean)
        sumsq == SumSeq([i \in 1..n |-> clean[i] * clean[i]])
    IN  IF n < 2 THEN NaN
        ELSE F(ISqrt(((n * sumsq - sum * sum) * Scale * Scale) \div (n * (n - 1))))

\* (shift / base * 100) if base != 0 else 0
shift_pct(shift, base) == IF Ne(base, F(0)) THEN FPct(shift, base) ELSE F(0)

\* the PSI level above which drift is 'high' and a PSI alert 'critical'
psi_high == Scale \div 2

\* line 209 without the "or ks_test['significant']"
has_drift_psi_only(psi, threshold, ks_significant) == Gt(psi, threshold)

\* line 209
has_drift_of(psi, threshold, ks_significant) == Gt(psi, threshold) \/ ks_significant

\* lines 210-214 with the KS branch tested before the PSI branch
drift_severity_ks_first(psi, threshold, ks_significant) ==
    IF ks_significant THEN "low"
    ELSE IF Gt(psi, threshold)
    THEN (IF Gt(psi, F(psi_high)) THEN "high" ELSE "medium")
    ELSE "none"

\* lines 210-214 with the 0.5 test outside the threshold test
drift_severity_ungated(psi, threshold, ks_significant) ==
    IF Gt(psi, F(psi_high)) THEN "high"
    ELSE IF Gt(psi, threshold) THEN "medium"
    ELSE IF ks_significant THEN "low"
    ELSE "none"

\* lines 210-214
drift_severity_of(psi, threshold, ks_significant) ==
    IF Gt(psi, threshold)
    THEN (IF Gt(psi, F(psi_high)) THEN "high" ELSE "medium")
    ELSE IF ks_significant THEN "low"
    ELSE "none"

\* lines 188-232 for one column present in both datasets: the record, or the
\* exception that leaves calculate_feature_drift
feature_record(baseline_series, current_series, threshold) ==
    LET psi == calculate_psi(baseline_series, current_series, bins_default)
        ks_call == compare_distributions(baseline_series, current_series, "ks",
                       CHOOSE r \in test_outcomes(dropna(baseline_series),
                                                  dropna(current_series), "ks") : TRUE)
        ks_test == ks_call.value
        baseline_mean == mean(baseline_series)
        current_mean == mean(current_series)
        mean_shift == FSub(current_mean, baseline_mean)
        baseline_std == std(baseline_series)
        current_std == std(current_series)
        std_shift == FSub(current_std, baseline_std)
    IN  IF ks_call.kind = "raise" THEN ks_call
        \* Series.mean() of an object column holding strings raises TypeError
        ELSE IF HasCat(baseline_series) \/ HasCat(current_series) THEN Raised("TypeError")
        ELSE Returned(
            [psi |-> psi,
             psi_alert |-> Gt(psi, threshold),
             ks_statistic |-> ks_test.statistic,
             ks_p_value |-> ks_test.p_value,
             ks_significant |-> ks_test.significant,
             baseline_mean |-> baseline_mean,
             current_mean |-> current_mean,
             mean_shift |-> mean_shift,
             mean_shift_pct |-> shift_pct(mean_shift, baseline_mean),
             baseline_std |-> baseline_std,
             current_std |-> current_std,
             std_shift |-> std_shift,
             std_shift_pct |-> shift_pct(std_shift, baseline_std),
             has_drift |-> has_drift_of(psi, threshold, ks_test.significant),
             drift_severity |-> drift_severity_of(psi, threshold, ks_test.significant)])

\* A DataFrame: its columns in order, as (name, Series) pairs.
Columns(df) == {df[i][1] : i \in 1..Len(df)}

\* an optional argument: None, or a value
None == [given |-> FALSE, value |-> <<>>]
Some(x) == [given |-> TRUE, value |-> x]

\* baseline_data.select_dtypes(include=[np.number]).columns.tolist()
numeric_column_names(df) ==
    DictKeys(SelectSeq(df, LAMBDA c : ~HasCat(c[2])))

RECURSIVE feature_loop_nonempty_only(_, _, _, _, _)
\* the for loop of lines 183-232 passing over a column that has no value
\* left in either dataset once the missing ones are dropped
feature_loop_nonempty_only(baseline_data, current_data, cols, i, drift_results) ==
    IF i > Len(cols) THEN Returned(drift_results)
    ELSE LET col == cols[i]
         IN  IF col \notin Columns(baseline_data) \/ col \notin Columns(current_data)
             THEN feature_loop_nonempty_only(baseline_data, current_data, cols, i + 1,
                                             drift_results)
             ELSE IF dropna(DictGet(baseline_data, col)) = <<>> \/ dropna(DictGet(current_data, col)) = <<>>
             THEN feature_loop_nonempty_only(baseline_data, current_data, cols, i + 1,
                                             drift_results)
             ELSE LET r == feature_record(DictGet(baseline_data, col),
                                          DictGet(current_data, col), psi_threshold)
                  IN  IF r.kind = "raise" THEN r
                      ELSE feature_loop_nonempty_only(baseline_data, current_data, cols,
                               i + 1, DictSet(drift_results, col, r.value))

RECURSIVE feature_loop_current_unchecked(_, _, _, _, _)
\* the for loop of lines 183-232 with line 184 looking at the baseline only:
\* current_data[col] of line 189 raises KeyError for a column it lacks
feature_loop_current_unchecked(baseline_data, current_data, cols, i, drift_results) ==
    IF i > Len(cols) THEN Returned(drift_results)
    ELSE LET col == cols[i]
         IN  IF col \notin Columns(baseline_data)
             THEN feature_loop_current_unchecked(baseline_data, current_data, cols,
                                                 i + 1, drift_results)
             ELSE IF col \notin Columns(current_data) THEN Raised("KeyError")
             ELSE LET r == feature_record(DictGet(baseline_data, col),
                                          DictGet(current_data, col), psi_threshold)
                  IN  IF r.kind = "raise" THEN r
                      ELSE feature_loop_current_unchecked(baseline_data, current_data,
                               cols, i + 1, DictSet(drift_results, col, r.value))

RECURSIVE feature_loop(_, _, _, _, _)
\* the for loop of lines 183-232 from the i-th requested column on
feature_loop(baseline_data, current_data, cols, i, drift_results) ==
    IF i > Len(cols) THEN Returned(drift_results)
    ELSE LET col == cols[i]
         IN  IF col \notin Columns(baseline_data) \/ col \notin Columns(current_data)
             THEN feature_loop(baseline_data, current_data, cols, i + 1, drift_results)
             ELSE LET r == feature_record(DictGet(baseline_data, col),
                                          DictGet(current_data, col), psi_threshold)
                  IN  IF r.kind = "raise" THEN r
                      ELSE feature_loop(baseline_data, current_data, cols, i + 1,
                                        DictSet(drift_results, col, r.value))

calculate_feature_drift(baseline_data, current_data, numeric_columns) ==
    feature_loop(baseline_data, current_data,
                 IF numeric_columns.given THEN numeric_columns.value
                 ELSE numeric_column_names(baseline_data),
                 1, <<>>)

\* ------------------------------------------------------ compare_performance
\* the list of line 253 with every key of a classification report
metric_names_with_auc == <<"accuracy", "precision", "recall", "f1", "auc">>

metric_names == <<"accuracy", "precision", "recall", "f1">>

\* fixed thresholds (percent) of the metrics other than accuracy
other_critical_pct == 10
other_warning_pct == 5

\* lines 264-280 with > in place of >= for accuracy
alert_level_strict(metric_name, degradation_pct, warning_threshold, critical_threshold) ==
    IF metric_name = "accuracy"
    THEN (IF Gt(degradation_pct, FTimes100(critical_threshold)) THEN "critical"
          ELSE IF Gt(degradation_pct, FTimes100(warning_threshold)) THEN "warning"
          ELSE "none")
    ELSE (IF Ge(degradation_pct, F(other_critical_pct * Scale)) THEN "critical"
          ELSE IF Ge(degradation_pct, F(other_warning_pct * Scale)) THEN "warning"
          ELSE "none")

\* lines 264-280 with the configured thresholds applied to every metric
alert_level_configured(metric_name, degradation_pct, warning_threshold, critical_threshold) ==
    IF Ge(degradation_pct, FTimes100(critical_threshold)) THEN "critical"
    ELSE IF Ge(degradation_pct, FTimes100(warning_threshold)) THEN "warning"
    ELSE "none"

\* lines 264-280
alert_level_of(metric_name, degradation_pct, warning_threshold, critical_threshold) ==
    IF metric_name = "accuracy"
    THEN (IF Ge(degradation_pct, FTimes100(critical_threshold)) THEN "critical"
          ELSE IF Ge(degradation_pct, FTimes100(warning_threshold)) THEN "warning"
          ELSE "none")
    ELSE (IF Ge(degradation_pct, F(other_critical_pct * Scale)) THEN "critical"
          ELSE IF Ge(degradation_pct, F(other_warning_pct * Scale)) THEN "warning"
          ELSE "none")

\* lines 257-288 for one metric present in both mappings
performance_record(metric_name, baseline_value, current_value) ==
    LET degradation == FSub(baseline_value, current_value)
        degradation_pct == IF Gt(baseline_value, F(0))
                           THEN FPct(degradation, baseline_value) ELSE F(0)
    IN  [baseline |-> baseline_value,
         current |-> current_value,
         degradation |-> degradation,
         degradation_pct |-> degradation_pct,
         alert_level |-> alert_level_of(metric_name, degradation_pct,
                                        accuracy_degradation_threshold,
                                        accuracy_critical_threshold)]

RECURSIVE performance_loop(_, _, _, _)
performance_loop(baseline_metrics, current_metrics, i, comparison) ==
    IF i > Len(metric_names) THEN comparison
    ELSE LET metric_name == metric_names[i]
         IN  IF metric_name \notin DOMAIN baseline_metrics
                \/ metric_name \notin DOMAIN current_metrics
             THEN performance_loop(baseline_metrics, current_metrics, i + 1, comparison)
             ELSE performance_loop(baseline_metrics, current_metrics, i + 1,
                     DictSet(comparison, metric_name,
                             performance_record(metric_name,
                                                baseline_metrics[metric_name],
                                                current_metrics[metric_name])))

compare_performance(baseline_metrics, current_metrics) ==
    performance_loop(baseline_metrics, current_metrics, 1, <<>>)

\* lines 366-382 with "if" where line 375 has "elif"
feature_alerts_both(feature, metrics) ==
    (IF metrics.psi_alert
     THEN << [type |-> "feature_drift",
              feature |-> feature,
              level |-> IF Gt(metrics.psi, F(psi_high)) THEN "critical" ELSE "warning",
              message |-> <<"shows significant drift (PSI)", feature, metrics.psi>>,
              psi |-> metrics.psi,
              mean_shift_pct |-> metrics.mean_shift_pct] >>
     ELSE <<>>)
    \o (IF metrics.ks_significant
        THEN << [type |-> "feature_drift",
                 feature |-> feature,
                 level |-> "warning",
                 message |-> <<"distribution changed significantly (KS p-value)",
                               feature, metrics.ks_p_value>>,
                 ks_p_value |-> metrics.ks_p_value] >>
        ELSE <<>>)

\* lines 366-382 with every PSI alert critical
feature_alerts_critical(feature, metrics) ==
    IF metrics.psi_alert
    THEN << [type |-> "feature_drift",
             feature |-> feature,
             level |-> "critical",
             message |-> <<"shows significant drift (PSI)", feature, metrics.psi>>,
             psi |-> metrics.psi,
             mean_shift_pct |-> metrics.mean_shift_pct] >>
    ELSE IF metrics.ks_significant
    THEN << [type |-> "feature_drift",
             feature |-> feature,
             level |-> "warning",
             message |-> <<"distribution changed significantly (KS p-value)",
                           feature, metrics.ks_p_value>>,
             ks_p_value |-> metrics.ks_p_value] >>
    ELSE <<>>

\* --------------------------------------------------------- _generate_alerts
\* lines 366-382: the alerts of one feature drift record (none or one)
\* lines 366-382 with the PSI alert built like the KS alert, without the
\* mean shift
feature_alerts_without_shift(feature, metrics) ==
    IF metrics.psi_alert
    THEN << [type |-> "feature_drift",
             feature |-> feature,
             level |-> IF Gt(metrics.psi, F(psi_high)) THEN "critical" ELSE "warning",
             message |-> <<"shows significant drift (PSI)", feature, metrics.psi>>,
             psi |-> metrics.psi] >>
    ELSE IF metrics.ks_significant
    THEN << [type |-> "feature_drift",
             feature |-> feature,
             level |-> "warning",
             message |-> <<"distribution changed significantly (KS p-value)",
                           feature, metrics.ks_p_value>>,
             ks_p_value |-> metrics.ks_p_value] >>
    ELSE <<>>

feature_alerts(feature, metrics) ==
    IF metrics.psi_alert
    THEN << [type |-> "feature_drift",
             feature |-> feature,
             level |-> IF Gt(metrics.psi, F(psi_high)) THEN "critical" ELSE "warning",
             message |-> <<"shows significant drift (PSI)", feature, metrics.psi>>,
             psi |-> metrics.psi,
             mean_shift_pct |-> metrics.mean_shift_pct] >>
    ELSE IF metrics.ks_significant
    THEN << [type |-> "feature_drift",
             feature |-> feature,
             level |-> "warning",
             message |-> <<"distribution changed significantly (KS p-value)",
                           feature, metrics.ks_p_value>>,
             ks_p_value |-> metrics.ks_p_value] >>
    ELSE <<>>

\* lines 386-405 with an alert appended for every record, at the record's level
performance_alerts_unfiltered(metric_name, metrics) ==
    << [type |-> "performance_degradation",
        metric |-> metric_name,
        level |-> metrics.alert_level,
        message |-> <<"degraded", metric_name, metrics.degradation_pct>>,
        degradation_pct |-> metrics.degradation_pct,
        baseline |-> metrics.baseline,
        current |-> metrics.current] >>

\* lines 386-405 without the elif branch for 'warning'
performance_alerts_critical_only(metric_name, metrics) ==
    IF metrics.alert_level = "critical"
    THEN << [type |-> "performance_degradation",
             metric |-> metric_name,
             level |-> "critical",
             message |-> <<"Critical degradation", metric_name, metrics.degradation_pct>>,
             degradation_pct |-> metrics.degradation_pct,
             baseline |-> metrics.baseline,
             current |-> metrics.current] >>
    ELSE <<>>

\* lines 386-405: the alerts of one performance comparison record
performance_alerts(metric_name, metrics) ==
    IF metrics.alert_level = "critical"
    THEN << [type |-> "performance_degradation",
             metric |-> metric_name,
             level |-> "critical",
             message |-> <<"Critical degradation", metric_name, metrics.degradation_pct>>,
             degradation_pct |-> metrics.degradation_pct,
             baseline |-> metrics.baseline,
             current |-> metrics.current] >>
    ELSE IF metrics.alert_level = "warning"
    THEN << [type |-> "performance_degradation",
             metric |-> metric_name,
             level |-> "warning",
             message |-> <<"Warning: degraded", metric_name, metrics.degradation_pct>>,
             degradation_pct |-> metrics.degradation_pct,
             baseline |-> metrics.baseline,
             current |-> metrics.current] >>
    ELSE <<>>

RECURSIVE feature_alerts_loop(_, _)
\* the for loop of lines 365-382 from the i-th entry on
feature_alerts_loop(feature_drift, i) ==
    IF i > Len(feature_drift) THEN <<>>
    ELSE feature_alerts(feature_drift[i][1], feature_drift[i][2])
            \o feature_alerts_loop(feature_drift, i + 1)

RECURSIVE performance_alerts_loop(_, _)
\* the for loop of lines 385-405 from the i-th entry on
performance_alerts_loop(performance_drift, i) ==
    IF i > Len(performance_drift) THEN <<>>
    ELSE performance_alerts(performance_drift[i][1], performance_drift[i][2])
            \o performance_alerts_loop(performance_drift, i + 1)

\* lines 362-407 with the performance loop run before the feature loop
generate_alerts_performance_first(feature_drift, performance_drift) ==
    performance_alerts_loop(performance_drift, 1) \o feature_alerts_loop(feature_drift, 1)

generate_alerts(feature_drift, performance_drift) ==
    feature_alerts_loop(feature_drift, 1) \o performance_alerts_loop(performance_drift, 1)

\* -------------------------------------------------------------- detect_drift
\* the report of lines 326-341
drift_report(feature_drift, performance_drift, alerts) ==
    LET total_features_with_drift ==
            Len(SelectSeq(feature_drift, LAMBDA e : e[2].has_drift))
        total_alerts ==
            Len(SelectSeq(alerts, LAMBDA a : a.level \in {"warning", "critical"}))
    IN  [feature_drift |-> feature_drift,
         performance_drift |-> performance_drift,
         alerts |-> alerts,
         summary |->
            [total_features_analyzed |-> Len(feature_drift),
             features_with_drift |-> total_features_with_drift,
             total_alerts |-> total_alerts,
             critical_alerts |->
                 Len(SelectSeq(alerts, LAMBDA a : a.level = "critical")),
             warning_alerts |->
                 Len(SelectSeq(alerts, LAMBDA a : a.level = "warning"))]]

detect_drift(baseline_data, current_data, baseline_metrics, current_metrics, numeric_columns) ==
    LET fd == calculate_feature_drift(baseline_data, current_data, numeric_columns)
        feature_drift == fd.value
        performance_drift == compare_performance(baseline_metrics, current_metrics)
        alerts == generate_alerts(feature_drift, performance_drift)
    IN  IF fd.kind = "raise" THEN fd
        ELSE Returned(drift_report(feature_drift, performance_drift, alerts))

\* ----------------------------------------------------------------- inputs
\* a column of n rows mixing a string with numbers
CatColumn(n) == [i \in 1..n |-> IF i = 1 THEN Cat ELSE 1]
ConstColumn(n, v) == [i \in 1..n |-> v]
\* n rows, all 0 but the last
RefColumn(n) == [i \in 1..n |-> IF i = n THEN 1 ELSE 0]

ColumnsA(n) == SortedSeqs(Numbers \cup {Missing}, n) \cup {CatColumn(n)}
ColumnsB(n) == {ConstColumn(n, v) : v \in Numbers \cup {Missing}}

FramesWith(A, B) ==
    {<<>>} \cup {<< <<"a", x>> >> : x \in A} \cup {<< <<"b", y>> >> : y \in B}
           \cup {<< <<"a", x>>, <<"b", y>> >> : x \in A, y \in B}

\* the current datasets: no rows or MaxLen rows, columns among a and b
Frames == FramesWith(ColumnsA(MaxLen), ColumnsB(MaxLen)) \cup FramesWith({<<>>}, {<<>>})
\* the reference datasets
BaselineFrames ==
    FramesWith({RefColumn(MaxLen), CatColumn(MaxLen)},
               {ConstColumn(MaxLen, 0), ConstColumn(MaxLen, Missing)})

NumericColumnsArgs ==
    {None, Some(<<>>), Some(<<"a">>), Some(<<"a", "b">>), Some(<<"b", "c", "a">>)}

MetricValues ==
    {F(0), F((80 * Scale) \div 100), F((90 * Scale) \div 100),
     F((95 * Scale) \div 100), F(Scale)}
AllMetrics == {"accuracy", "precision", "recall", "f1"}
MetricKeySets == {{}, {"accuracy"}, {"accuracy", "f1"}, {"recall", "auc"}}
UniformMetrics == {[k \in AllMetrics |-> v] : v \in MetricValues}
MetricDicts == UniformMetrics \cup UNION {[K -> MetricValues] : K \in MetricKeySets}

\* ----------------------------------------------------------------- caller
NoCall == [op |-> "none"]
NoResult == Returned(<<>>)

\* the invocations, a frame no call is in, and no remembered call
Invocations == 1..Concurrency

NoArgs == [baseline_data |-> <<>>, current_data |-> <<>>,
           baseline_metrics |-> <<>>, current_metrics |-> <<>>,
           numeric_columns |-> None]
IdleFrame == [pc |-> "idle", op |-> "none", args |-> NoArgs,
              feature_drift |-> <<>>, performance_drift |-> <<>>,
              report |-> NoResult]
NoPrevious == [given |-> FALSE, op |-> "none", args |-> NoArgs, report |-> NoResult]

\* no report has been written
NoFile == [written |-> FALSE]

\* the serving process as it starts: no model files, nothing loaded, no
\* ModelLoader made, no request answered
EmptyDisk == [model |-> "missing", metadata |-> "missing"]
NotLoaded == [model |-> "None", model_metadata |-> "None", model_loaded |-> FALSE]
NoLoader == [instances |-> 0, module_loader |-> FALSE, initialized |-> FALSE, model |-> "None", model_metadata |-> "None", model_loaded |-> FALSE, reads |-> 0, skipped |-> FALSE]
NoResponse == [endpoint |-> "none", app |-> "none", status_code |-> 0, status |-> "none", model_loaded |-> FALSE, predicted |-> FALSE]

\* DriftDetector(psi_threshold, accuracy_degradation_threshold,
\* accuracy_critical_threshold): the defaults, and two other configurations.
DetectorConfigs ==
    { <<F((2 * Scale) \div 10), F((5 * Scale) \div 100), F((10 * Scale) \div 100)>>,
      <<F(30 * Scale), F((2 * Scale) \div 100), F((15 * Scale) \div 100)>>,
      <<F((2 * Scale) \div 10), F((10 * Scale) \div 100), F((5 * Scale) \div 100)>> }

Init ==
    /\ \E c \in DetectorConfigs :
          /\ psi_threshold = c[1]
          /\ accuracy_degradation_threshold = c[2]
          /\ accuracy_critical_threshold = c[3]
    /\ pc = "idle"
    /\ call = NoCall
    /\ result = NoResult
    /\ routine = NotCalled
    /\ frames = [i \in Invocations |-> IdleFrame]
    /\ lists = [i \in Invocations |-> <<>>]
    /\ previous = NoPrevious
    /\ report_json = NoFile
    /\ disk = EmptyDisk
    /\ main_app = NotLoaded
    /\ loader = NoLoader
    /\ response = NoResponse

TestKinds == {"ks", "mannwhitney", "bogus"}
BinCounts == {2, bins_default}

CalculatePsi ==
    /\ pc = "idle"
    /\ \E expected \in Samples, actual \in Samples, bins \in BinCounts :
          /\ call' = [op |-> "calculate_psi", expected |-> expected,
                      actual |-> actual, bins |-> bins]
          /\ result' = Returned(calculate_psi(expected, actual, bins))
    /\ pc' = "returned"
    /\ routine' = NotCalled
    /\ UNCHANGED <<config, invocations, report_json, serving>>

CompareDistributions ==
    /\ pc = "idle"
    /\ \E baseline \in Samples, current \in Samples, test_type \in TestKinds :
          /\ call' = [op |-> "compare_distributions", baseline |-> baseline,
                      current |-> current, test_type |-> test_type]
          /\ \E r \in test_outcomes(dropna(baseline), dropna(current), test_type) :
                /\ routine' = r
                /\ result' = compare_distributions(baseline, current, test_type, r)
    /\ pc' = "returned"
    /\ UNCHANGED <<config, invocations, report_json, serving>>

CalculateFeatureDrift ==
    /\ pc = "idle"
    /\ \E baseline_data \in BaselineFrames, current_data \in Frames,
          numeric_columns \in NumericColumnsArgs :
          /\ call' = [op |-> "calculate_feature_drift",
                      baseline_data |-> baseline_data,
                      current_data |-> current_data,
                      numeric_columns |-> numeric_columns]
          /\ result' = calculate_feature_drift(baseline_data, current_data,
                                               numeric_columns)
    /\ pc' = "returned"
    /\ routine' = NotCalled
    /\ UNCHANGED <<config, invocations, report_json, serving>>

ComparePerformance ==
    /\ pc = "idle"
    /\ \E baseline_metrics \in MetricDicts, current_metrics \in MetricDicts :
          /\ call' = [op |-> "compare_performance",
                      baseline_metrics |-> baseline_metrics,
                      current_metrics |-> current_metrics]
          /\ result' = Returned(compare_performance(baseline_metrics, current_metrics))
    /\ pc' = "returned"
    /\ routine' = NotCalled
    /\ UNCHANGED <<config, invocations, report_json, serving>>

DetectDrift ==
    /\ pc = "idle"
    /\ \E baseline_data \in BaselineFrames, current_data \in Frames,
          numeric_columns \in {None, Some(<<"b", "c", "a">>)},
          baseline_metrics \in {[k \in AllMetrics |-> F(Scale)],
                                [k \in {"accuracy", "f1"} |-> F((95 * Scale) \div 100)]},
          current_metrics \in UniformMetrics :
          /\ call' = [op |-> "detect_drift",
                      baseline_data |-> baseline_data,
                      current_data |-> current_data,
                      baseline_metrics |-> baseline_metrics,
                      current_metrics |-> current_metrics,
                      numeric_columns |-> numeric_columns]
          /\ result' = detect_drift(baseline_data, current_data, baseline_metrics,
                                    current_metrics, numeric_columns)
    /\ pc' = "returned"
    /\ routine' = NotCalled
    /\ UNCHANGED <<config, invocations, report_json, serving>>

\* ------------------------------------------ the report written as JSON
\* the keys whose values are floats
FloatFields ==
    {"psi", "ks_statistic", "ks_p_value", "baseline_mean", "current_mean",
     "mean_shift", "mean_shift_pct", "baseline_std", "current_std", "std_shift",
     "std_shift_pct", "baseline", "current", "degradation", "degradation_pct"}

\* json.dump of a float: its repr as a number; with allow_nan left at True a
\* NaN is written as the token NaN (default=str is asked about objects json
\* cannot serialize only, and a float is none of them)
json_float(x) ==
    IF x.nan THEN [token |-> "NaN"] ELSE [token |-> "number", value |-> x.v]

\* json.dump of a string, an int or a bool (a numpy.bool_ goes through
\* default=str and comes out as the string "True" or "False"; the two are
\* not told apart here)
json_plain(x) == [token |-> "plain", value |-> x]

\* json.dump of a dict with string keys
json_record(d) ==
    [k \in DOMAIN d |-> IF k \in FloatFields THEN json_float(d[k]) ELSE json_plain(d[k])]

\* json.dump of a mapping from names to records, and of a list of records
json_mapping(m) == [i \in 1..Len(m) |-> <<m[i][1], json_record(m[i][2])>>]
json_list(l) == [i \in 1..Len(l) |-> json_record(l[i])]
json_metrics(m) == [k \in DOMAIN m |-> json_float(m[k])]

\* json.dump(report_summary, f, indent=2, default=str) of lines 207-224; the
\* two paths and the model name, strings that do not come from the report,
\* are left out
json_dump(baseline_metrics, current_metrics, drift_report_) ==
    [written |-> TRUE,
     baseline_metrics |-> json_metrics(baseline_metrics),
     current_metrics |-> json_metrics(current_metrics),
     performance_degradation |-> json_mapping(drift_report_.performance_drift),
     feature_drift |-> json_mapping(drift_report_.feature_drift),
     feature_drift_summary |->
        [total_features |-> json_plain(drift_report_.summary.total_features_analyzed),
         features_with_drift |-> json_plain(drift_report_.summary.features_with_drift),
         critical_alerts |-> json_plain(drift_report_.summary.critical_alerts),
         warning_alerts |-> json_plain(drift_report_.summary.warning_alerts)],
     alerts |-> json_list(drift_report_.alerts)]

\* the report detect_drift returned is written to drift_report.json
SaveReport ==
    /\ pc = "returned"
    /\ call.op = "detect_drift"
    /\ result.kind = "return"
    /\ report_json' = json_dump(call.baseline_metrics, call.current_metrics,
                                result.value)
    /\ pc' = "saved"
    /\ UNCHANGED <<config, call, result, routine, invocations, serving>>

\* the caller takes the result and is free to call again
Return ==
    /\ pc \in {"returned", "saved"}
    /\ pc' = "idle"
    /\ call' = NoCall
    /\ result' = NoResult
    /\ routine' = NotCalled
    /\ report_json' = NoFile
    /\ UNCHANGED <<config, invocations, serving>>

Next ==
    \/ CalculatePsi
    \/ CompareDistributions
    \/ CalculateFeatureDrift
    \/ ComparePerformance
    \/ DetectDrift
    \/ SaveReport
    \/ Return

Spec == Init /\ [][Next]_vars

\* --------------------------------------------------- concurrent invocations
\* the argument sets the invocations are made with
ReferenceFrame == << <<"a", RefColumn(MaxLen)>>, <<"b", ConstColumn(MaxLen, 0)>> >>
ShiftedFrame ==
    << <<"a", [i \in 1..MaxLen |-> IF 2 * i > MaxLen THEN 1 ELSE 0]>>,
       <<"b", ConstColumn(MaxLen, 1)>> >>
MissingFrame ==
    << <<"a", ConstColumn(MaxLen, Missing)>>, <<"b", ConstColumn(MaxLen, 0)>> >>
GoodMetrics == [k \in AllMetrics |-> F(Scale)]
PoorMetrics == [k \in AllMetrics |-> F((80 * Scale) \div 100)]
ConcurrentCalls ==
    { [op |-> "detect_drift",
       args |-> [baseline_data |-> ReferenceFrame, current_data |-> ShiftedFrame,
                 baseline_metrics |-> GoodMetrics, current_metrics |-> PoorMetrics,
                 numeric_columns |-> Some(<<"b", "c", "a">>)]],
      [op |-> "detect_drift",
       args |-> [baseline_data |-> ReferenceFrame, current_data |-> MissingFrame,
                 baseline_metrics |-> GoodMetrics, current_metrics |-> GoodMetrics,
                 numeric_columns |-> None]],
      [op |-> "calculate_feature_drift",
       args |-> [NoArgs EXCEPT !.baseline_data = ReferenceFrame,
                               !.current_data = ShiftedFrame]],
      [op |-> "compare_performance",
       args |-> [NoArgs EXCEPT !.baseline_metrics = GoodMetrics,
                               !.current_metrics = PoorMetrics]] }

\* the frame of a call that has just been entered
new_frame(c) ==
    [IdleFrame EXCEPT !.op = c.op, !.args = c.args,
                      !.pc = IF c.op = "compare_performance"
                             THEN "performance_drift" ELSE "feature_drift"]

\* lines 316-318 with the rows holding a missing value dropped from
\* current_data in place before the analysis
feature_drift_step_inplace(f) ==
    LET cleaned == [i \in 1..Len(f.args.current_data) |->
                       <<f.args.current_data[i][1], dropna(f.args.current_data[i][2])>>]
        fd == calculate_feature_drift(f.args.baseline_data, cleaned,
                                      f.args.numeric_columns)
    IN  IF fd.kind = "raise"
        THEN [f EXCEPT !.pc = "raised", !.report = fd, !.args.current_data = cleaned]
        ELSE IF f.op = "calculate_feature_drift"
        THEN [f EXCEPT !.pc = "returned", !.report = fd, !.args.current_data = cleaned]
        ELSE [f EXCEPT !.pc = "performance_drift", !.feature_drift = fd.value,
                       !.args.current_data = cleaned]

\* lines 316-318 (or a direct call of calculate_feature_drift): the feature
\* mapping becomes a local of the frame, an exception leaves the call
feature_drift_step(f) ==
    LET fd == calculate_feature_drift(f.args.baseline_data, f.args.current_data,
                                      f.args.numeric_columns)
    IN  IF fd.kind = "raise" THEN [f EXCEPT !.pc = "raised", !.report = fd]
        ELSE IF f.op = "calculate_feature_drift"
        THEN [f EXCEPT !.pc = "returned", !.report = fd]
        ELSE [f EXCEPT !.pc = "performance_drift", !.feature_drift = fd.value]

\* line 321 (or a direct call of compare_performance)
performance_drift_step(f) ==
    LET pd == compare_performance(f.args.baseline_metrics, f.args.current_metrics)
    IN  IF f.op = "compare_performance"
        THEN [f EXCEPT !.pc = "returned", !.report = Returned(pd)]
        ELSE [f EXCEPT !.pc = "generate_alerts", !.performance_drift = pd]

\* a list object shared by every invocation
list_shared(i) == 1

\* the list object invocation i appends its alerts to: line 362 makes a new
\* one in every call
list_of(i) == i

\* line 362 left out: the list is the one the earlier call left
alerts_begin_kept(ls, i) == ls

\* line 362: alerts = []
alerts_begin(ls, i) == [ls EXCEPT ![list_of(i)] = <<>>]

\* the appends of one loop of _generate_alerts
alerts_extend(ls, i, more) == [ls EXCEPT ![list_of(i)] = @ \o more]

\* lines 326-345, on the list _generate_alerts returned
summary_step(f, alerts) ==
    [f EXCEPT !.pc = "returned",
              !.report = Returned(drift_report(f.feature_drift,
                                               f.performance_drift, alerts))]

Invoke(i) ==
    /\ frames[i].pc = "idle"
    /\ \E c \in ConcurrentCalls : frames' = [frames EXCEPT ![i] = new_frame(c)]
    /\ UNCHANGED <<config, caller, lists, previous, report_json, serving>>

FeatureDriftStep(i) ==
    /\ frames[i].pc = "feature_drift"
    /\ frames' = [frames EXCEPT ![i] = feature_drift_step(frames[i])]
    /\ UNCHANGED <<config, caller, lists, previous, report_json, serving>>

PerformanceDriftStep(i) ==
    /\ frames[i].pc = "performance_drift"
    /\ frames' = [frames EXCEPT ![i] = performance_drift_step(frames[i])]
    /\ UNCHANGED <<config, caller, lists, previous, report_json, serving>>

\* line 324 enters _generate_alerts
AlertsBegin(i) ==
    /\ frames[i].pc = "generate_alerts"
    /\ lists' = alerts_begin(lists, i)
    /\ frames' = [frames EXCEPT ![i].pc = "feature_alerts"]
    /\ UNCHANGED <<config, caller, previous, report_json, serving>>

\* the loop of lines 365-382
FeatureAlertsStep(i) ==
    /\ frames[i].pc = "feature_alerts"
    /\ lists' = alerts_extend(lists, i, feature_alerts_loop(frames[i].feature_drift, 1))
    /\ frames' = [frames EXCEPT ![i].pc = "performance_alerts"]
    /\ UNCHANGED <<config, caller, previous, report_json, serving>>

\* the loop of lines 385-405
PerformanceAlertsStep(i) ==
    /\ frames[i].pc = "performance_alerts"
    /\ lists' = alerts_extend(lists, i,
                              performance_alerts_loop(frames[i].performance_drift, 1))
    /\ frames' = [frames EXCEPT ![i].pc = "summary"]
    /\ UNCHANGED <<config, caller, previous, report_json, serving>>

SummaryStep(i) ==
    /\ frames[i].pc = "summary"
    /\ frames' = [frames EXCEPT ![i] = summary_step(frames[i], lists[list_of(i)])]
    /\ UNCHANGED <<config, caller, lists, previous, report_json, serving>>

\* the caller of invocation i takes what the call gave back; previous
\* remembers one detect_drift call of the past
ReturnStep(i) ==
    /\ frames[i].pc \in {"returned", "raised"}
    /\ frames' = [frames EXCEPT ![i] = IdleFrame]
    /\ \/ UNCHANGED previous
       \/ /\ ~previous.given
          /\ frames[i].op = "detect_drift"
          /\ previous' = [given |-> TRUE, op |-> frames[i].op,
                          args |-> frames[i].args, report |-> frames[i].report]
    /\ UNCHANGED <<config, caller, lists, report_json, serving>>

NextConcurrent ==
    \E i \in Invocations :
        \/ Invoke(i)
        \/ FeatureDriftStep(i)
        \/ PerformanceDriftStep(i)
        \/ AlertsBegin(i)
        \/ FeatureAlertsStep(i)
        \/ PerformanceAlertsStep(i)
        \/ SummaryStep(i)
        \/ ReturnStep(i)

\* the detector is DriftDetector(), with the default thresholds
InitDefault ==
    /\ Init
    /\ psi_threshold = F((2 * Scale) \div 10)
    /\ accuracy_degradation_threshold = F((5 * Scale) \div 100)
    /\ accuracy_critical_threshold = F((10 * Scale) \div 100)

SpecConcurrent == InitDefault /\ [][NextConcurrent]_vars

\* ------------------------------------------------------- the serving layer
\* What MODELS_DIR holds for best_pipeline.joblib and model_metadata.joblib:
\* no file, a file joblib cannot load, or a loadable object.  Metadata
\* without an 'accuracy' entry loads, and then fails the ':.4f' log line.
ModelFiles == {"missing", "corrupt", "pipeline_a", "pipeline_b"}
MetadataFiles == {"missing", "corrupt", "no_accuracy", "complete"}

\* load_model() of src/api/main.py on the module globals g with the files d.
\* Every failure ends in the except branch: model_loaded = False, re-raise;
\* what was assigned before the failure stays assigned.
load_model(g, d) ==
    IF d.model = "missing" \/ d.metadata = "missing" THEN [g EXCEPT !.model_loaded = FALSE]
    ELSE IF d.model = "corrupt" THEN [g EXCEPT !.model_loaded = FALSE]
    ELSE IF d.metadata = "corrupt" THEN [g EXCEPT !.model = d.model, !.model_loaded = FALSE]
    ELSE IF d.metadata = "no_accuracy" THEN [g EXCEPT !.model = d.model, !.model_metadata = d.metadata, !.model_loaded = FALSE]
    ELSE [g EXCEPT !.model = d.model, !.model_metadata = d.metadata, !.model_loaded = TRUE]

\* ModelLoader.__new__: the class makes its one object on the first call.
ModelLoader_new(l) ==
    IF l.instances = 0 THEN [l EXCEPT !.instances = 1, !.initialized = FALSE] ELSE l

\* ModelLoader.__init__ on the object __new__ returned.
ModelLoader_init(l) ==
    IF l.initialized THEN l
    ELSE [l EXCEPT !.model = "None", !.model_metadata = "None", !.model_loaded = FALSE, !.initialized = TRUE]

\* ModelLoader()
ModelLoader(l) == ModelLoader_init(ModelLoader_new(l))

\* get_model_loader(): the module's _model_loader, made on first use.
get_model_loader(l) ==
    IF l.module_loader THEN l ELSE [ModelLoader(l) EXCEPT !.module_loader = TRUE]

\* the try block of ModelLoader.load_model; reads counts the joblib.load
\* calls on the model file
ModelLoader_read_files(l, d) ==
    IF d.model = "missing" \/ d.metadata = "missing" THEN [l EXCEPT !.model_loaded = FALSE]
    ELSE IF d.model = "corrupt" THEN [l EXCEPT !.model_loaded = FALSE, !.reads = @ + 1]
    ELSE IF d.metadata = "corrupt" THEN [l EXCEPT !.model = d.model, !.model_loaded = FALSE, !.reads = @ + 1]
    ELSE IF d.metadata = "no_accuracy" THEN [l EXCEPT !.model = d.model, !.model_metadata = d.metadata, !.model_loaded = FALSE, !.reads = @ + 1]
    ELSE [l EXCEPT !.model = d.model, !.model_metadata = d.metadata, !.model_loaded = TRUE, !.reads = @ + 1]

ModelLoader_load_model_again(l, d) == ModelLoader_read_files(l, d)

\* ModelLoader.load_model; skipped records that a call took the early
\* return ("Model already loaded, skipping reload")
ModelLoader_load_model(l, d) ==
    IF l.model_loaded THEN [l EXCEPT !.skipped = TRUE] ELSE ModelLoader_read_files(l, d)

\* ModelLoader.load_metadata: reads the metadata file when none is held; a
\* failure is logged and raised again, the field stays None.
ModelLoader_load_metadata(l, d) ==
    IF l.model_metadata = "None" /\ d.metadata \in {"no_accuracy", "complete"} THEN [l EXCEPT !.model_metadata = d.metadata] ELSE l

\* a response to a request
Response(endpoint, app, status_code) == [endpoint |-> endpoint, app |-> app, status_code |-> status_code, status |-> "none", model_loaded |-> FALSE, predicted |-> FALSE]

\* health_check of src/api/main.py
main_health_check(g) ==
    [Response("/health", "main", 200) EXCEPT !.status = IF g.model_loaded THEN "healthy" ELSE "unhealthy", !.model_loaded = g.model_loaded]

\* health_check of src/api/routers/health.py
health_check(l) ==
    [Response("/health", "routers", 200) EXCEPT !.status = IF l.model_loaded THEN "healthy" ELSE "degraded", !.model_loaded = l.model_loaded]

\* What model.predict does with a valid sample is the model's business:
\* it returns, or raises a ValueError, or raises something else.
PredictOutcomes == {"returns", "ValueError", "Exception"}

\* the body of a single prediction after the model was obtained
predict_with_model(app, outcome) ==
    [Response("/predict", app, IF outcome = "returns" THEN 200 ELSE 500) EXCEPT !.predicted = TRUE]

\* the body of a batch prediction after the model was obtained; samples is
\* the length of request.samples
predict_batch_with_model(app, samples, outcome) ==
    IF samples = 0 THEN Response("/predict/batch", app, 422)
    ELSE [Response("/predict/batch", app, IF outcome = "returns" THEN 200 ELSE IF outcome = "ValueError" THEN 422 ELSE 500) EXCEPT !.predicted = TRUE]

\* the guard of predict_single and predict_batch of src/api/main.py
main_guard(g) == ~ (~ g.model_loaded \/ g.model = "None")

\* predict_single of src/api/main.py
main_predict_single(g, outcome) ==
    IF ~ main_guard(g) THEN Response("/predict", "main", 503) ELSE predict_with_model("main", outcome)

\* predict_batch of src/api/main.py
main_predict_batch(g, samples, outcome) ==
    IF ~ main_guard(g) THEN Response("/predict/batch", "main", 503) ELSE predict_batch_with_model("main", samples, outcome)

get_loaded_model_model_only(l) == IF l.model = "None" THEN "HTTPException" ELSE l.model

\* get_loaded_model(): the model, or an HTTPException with status 503
get_loaded_model(l) ==
    IF ~ l.model_loaded \/ l.model = "None" THEN "HTTPException" ELSE l.model

\* predict_single of src/api/routers/prediction.py, its dependencies first
predict_single(l, outcome) ==
    IF get_loaded_model(l) = "HTTPException" THEN Response("/predict", "routers", 503) ELSE predict_with_model("routers", outcome)

\* predict_batch of src/api/routers/prediction.py, its dependencies first
predict_batch(l, samples, outcome) ==
    IF get_loaded_model(l) = "HTTPException" THEN Response("/predict/batch", "routers", 503) ELSE predict_batch_with_model("routers", samples, outcome)

\* The model directory changes under the running process.
Deploy ==
    /\ \E m \in ModelFiles, md \in MetadataFiles : disk' = [model |-> m, metadata |-> md]
    /\ disk' # disk
    /\ response' = NoResponse
    /\ UNCHANGED <<config, caller, invocations, report_json, main_app, loader>>

\* startup_event of src/api/main.py: load_model(), the exception logged
StartupEvent ==
    /\ main_app' = load_model(main_app, disk)
    /\ response' = NoResponse
    /\ UNCHANGED <<config, caller, invocations, report_json, disk, loader>>

\* GET /health, POST /predict and POST /predict/batch on src/api/main.py
MainHealth ==
    /\ response' = main_health_check(main_app)
    /\ UNCHANGED <<config, caller, invocations, report_json, disk, main_app, loader>>

MainPredict ==
    /\ \E outcome \in PredictOutcomes : response' = main_predict_single(main_app, outcome)
    /\ UNCHANGED <<config, caller, invocations, report_json, disk, main_app, loader>>

MainPredictBatch ==
    /\ \E samples \in 0 .. MaxSamples, outcome \in PredictOutcomes : response' = main_predict_batch(main_app, samples, outcome)
    /\ UNCHANGED <<config, caller, invocations, report_json, disk, main_app, loader>>

\* ModelLoader() anywhere in the process
Construct ==
    /\ loader' = ModelLoader(loader)
    /\ response' = NoResponse
    /\ UNCHANGED <<config, caller, invocations, report_json, disk, main_app>>

\* get_model_loader() outside a request
GetModelLoader ==
    /\ loader' = get_model_loader(loader)
    /\ response' = NoResponse
    /\ UNCHANGED <<config, caller, invocations, report_json, disk, main_app>>

\* get_model_loader().load_model(), as the lifespan and the tests call it
LoadModel ==
    /\ loader.model_loaded \/ loader.reads < MaxReads
    /\ loader' = ModelLoader_load_model(get_model_loader(loader), disk)
    /\ response' = NoResponse
    /\ UNCHANGED <<config, caller, invocations, report_json, disk, main_app>>

\* get_model_loader().load_metadata()
LoadMetadata ==
    /\ loader' = ModelLoader_load_metadata(get_model_loader(loader), disk)
    /\ response' = NoResponse
    /\ UNCHANGED <<config, caller, invocations, report_json, disk, main_app>>

\* GET /health, POST /predict and POST /predict/batch on the routers; each
\* resolves get_model_loader first
RouterHealth ==
    /\ loader' = get_model_loader(loader)
    /\ response' = health_check(loader')
    /\ UNCHANGED <<config, caller, invocations, report_json, disk, main_app>>

RouterPredict ==
    /\ loader' = get_model_loader(loader)
    /\ \E outcome \in PredictOutcomes : response' = predict_single(loader', outcome)
    /\ UNCHANGED <<config, caller, invocations, report_json, disk, main_app>>

RouterPredictBatch ==
    /\ loader' = get_model_loader(loader)
    /\ \E samples \in 0 .. MaxSamples, outcome \in PredictOutcomes : response' = predict_batch(loader', samples, outcome)
    /\ UNCHANGED <<config, caller, invocations, report_json, disk, main_app>>

NextServing ==
    \/ Deploy
    \/ StartupEvent
    \/ MainHealth
    \/ MainPredict
    \/ MainPredictBatch
    \/ Construct
    \/ GetModelLoader
    \/ LoadModel
    \/ LoadMetadata
    \/ RouterHealth
    \/ RouterPredict
    \/ RouterPredictBatch

SpecServing == InitDefault /\ [][NextServing]_vars

\* ------------------------------------------------------------- properties
\* the last call was op and it returned a value
Done(op) == pc = "returned" /\ call.op = op /\ result.kind = "return"

\* the feature-drift mapping the last call produced (empty when it made none)
FeatureDrift ==
    IF Done("calculate_feature_drift") THEN result.value
    ELSE IF Done("detect_drift") THEN result.value.feature_drift
    ELSE <<>>

\* the performance mapping the last call produced (empty when it made none)
PerformanceDrift ==
    IF Done("compare_performance") THEN result.value
    ELSE IF Done("detect_drift") THEN result.value.performance_drift
    ELSE <<>>

\* the alerts of a detect_drift report (empty otherwise)
ReportAlerts == IF Done("detect_drift") THEN result.value.alerts ELSE <<>>

FeatureAlertsOf(feature) ==
    SelectSeq(ReportAlerts, LAMBDA a : a.type = "feature_drift" /\ a.feature = feature)
PerformanceAlertsOf(metric_name) ==
    SelectSeq(ReportAlerts,
              LAMBDA a : a.type = "performance_degradation" /\ a.metric = metric_name)

\* C1: in every feature drift record of a mapping calculate_feature_drift
\* produced (directly or inside detect_drift), has_drift is true exactly when
\* psi_alert or ks_significant is true
C1_HasDriftIffPsiAlertOrKs ==
    \A i \in 1..Len(FeatureDrift) :
        LET m == FeatureDrift[i][2]
        IN  m.has_drift <=> (m.psi_alert \/ m.ks_significant)

\* a mapping with a record whose PSI is NaN (no drift) and a record whose
\* drift comes from the KS test alone
C1_Witness ==
    /\ Done("calculate_feature_drift")
    /\ \E i \in 1..Len(FeatureDrift) :
          FeatureDrift[i][2].psi.nan /\ ~FeatureDrift[i][2].has_drift
    /\ \E i \in 1..Len(FeatureDrift) :
          LET m == FeatureDrift[i][2]
          IN  m.ks_significant /\ ~m.psi_alert /\ m.has_drift

\* C2 as stated: drift_severity is 'high' when PSI > 0.5, 'medium' when PSI
\* exceeds psi_threshold but is <= 0.5, 'low' when PSI does not exceed the
\* threshold and the KS test fired, 'none' otherwise
C2_SeverityAsStated ==
    \A i \in 1..Len(FeatureDrift) :
        LET m == FeatureDrift[i][2]
        IN  m.drift_severity =
                IF Gt(m.psi, F(psi_high)) THEN "high"
                ELSE IF Gt(m.psi, psi_threshold) THEN "medium"
                ELSE IF m.ks_significant THEN "low"
                ELSE "none"

\* C2 amended: drift_severity is 'high' exactly when PSI exceeds psi_threshold
\* and PSI > 0.5, 'medium' exactly when PSI exceeds psi_threshold and is
\* <= 0.5, 'low' exactly when PSI does not exceed psi_threshold and the KS
\* test is significant, and 'none' exactly when neither holds
C2_SeverityGatedByThreshold ==
    \A i \in 1..Len(FeatureDrift) :
        LET m == FeatureDrift[i][2]
            over == Gt(m.psi, psi_threshold)
        IN  /\ (m.drift_severity = "high") <=> (over /\ Gt(m.psi, F(psi_high)))
            /\ (m.drift_severity = "medium") <=> (over /\ ~Gt(m.psi, F(psi_high)))
            /\ (m.drift_severity = "low") <=> (~over /\ m.ks_significant)
            /\ (m.drift_severity = "none") <=> (~over /\ ~m.ks_significant)

\* a record whose PSI is above 0.5 but not above the configured threshold,
\* and one of severity 'low'
C2_Witness ==
    /\ Done("calculate_feature_drift")
    /\ \E i \in 1..Len(FeatureDrift) :
          LET m == FeatureDrift[i][2]
          IN  Gt(m.psi, F(psi_high)) /\ ~Gt(m.psi, psi_threshold)
              /\ m.drift_severity = "none"
    /\ \E i \in 1..Len(FeatureDrift) : FeatureDrift[i][2].drift_severity = "low"

\* C3: in every report of detect_drift, summary.total_alerts equals
\* summary.critical_alerts + summary.warning_alerts and the length of alerts
C3_AlertCountsConsistent ==
    Done("detect_drift") =>
        LET summary == result.value.summary
        IN  /\ summary.total_alerts = summary.critical_alerts + summary.warning_alerts
            /\ summary.total_alerts = Len(result.value.alerts)

\* a report with critical and warning alerts, of both types
C3_Witness ==
    /\ Done("detect_drift")
    /\ result.value.summary.critical_alerts > 0
    /\ result.value.summary.warning_alerts > 0
    /\ \E i \in 1..Len(ReportAlerts) : ReportAlerts[i].type = "feature_drift"
    /\ \E i \in 1..Len(ReportAlerts) : ReportAlerts[i].type = "performance_degradation"

\* C4: for each feature drift record of a report, the feature_drift alerts of
\* that feature are: one alert, 'critical' when PSI > 0.5 and 'warning'
\* otherwise, if psi_alert; else one 'warning' alert if ks_significant; else
\* none
C4_FeatureAlertRule ==
    \A i \in 1..Len(FeatureDrift) :
        Done("detect_drift") =>
            LET m == FeatureDrift[i][2]
                A == FeatureAlertsOf(FeatureDrift[i][1])
            IN  IF m.psi_alert
                THEN Len(A) = 1
                     /\ A[1].level = (IF Gt(m.psi, F(psi_high)) THEN "critical"
                                      ELSE "warning")
                ELSE IF m.ks_significant
                THEN Len(A) = 1 /\ A[1].level = "warning"
                ELSE Len(A) = 0

\* a report with a PSI alert at 'warning', a PSI alert at 'critical' and a
\* feature without alert
C4_Witness ==
    /\ Done("detect_drift")
    /\ \E i \in 1..Len(FeatureDrift) :
          LET m == FeatureDrift[i][2]
          IN  m.psi_alert /\ ~Gt(m.psi, F(psi_high))
              /\ Len(FeatureAlertsOf(FeatureDrift[i][1])) = 1
    /\ \E i \in 1..Len(FeatureDrift) :
          LET m == FeatureDrift[i][2]
          IN  m.psi_alert /\ Gt(m.psi, F(psi_high))
              /\ Len(FeatureAlertsOf(FeatureDrift[i][1])) = 1

\* C5: for each performance comparison record of a report there is exactly one
\* performance_degradation alert, at the record's level, when alert_level is
\* 'critical' or 'warning', and none when it is 'none'
C5_PerformanceAlertRule ==
    \A i \in 1..Len(PerformanceDrift) :
        Done("detect_drift") =>
            LET m == PerformanceDrift[i][2]
                A == PerformanceAlertsOf(PerformanceDrift[i][1])
            IN  IF m.alert_level \in {"critical", "warning"}
                THEN Len(A) = 1 /\ A[1].level = m.alert_level
                ELSE Len(A) = 0

\* a report with a 'warning' record and a 'critical' record, each with its alert
C5_Witness ==
    /\ Done("detect_drift")
    /\ \E i \in 1..Len(PerformanceDrift) :
          /\ PerformanceDrift[i][2].alert_level = "warning"
          /\ Len(PerformanceAlertsOf(PerformanceDrift[i][1])) = 1
    /\ \E i \in 1..Len(PerformanceDrift) :
          /\ PerformanceDrift[i][2].alert_level = "critical"
          /\ Len(PerformanceAlertsOf(PerformanceDrift[i][1])) = 1

\* C6: the accuracy record has alert_level 'critical' when degradation_pct >=
\* accuracy_critical_threshold*100, 'warning' when that fails and
\* degradation_pct >= accuracy_degradation_threshold*100, 'none' otherwise
C6_AccuracyThresholds ==
    \A i \in 1..Len(PerformanceDrift) :
        PerformanceDrift[i][1] = "accuracy" =>
            LET m == PerformanceDrift[i][2]
                critical == ~m.degradation_pct.nan /\
                    m.degradation_pct.v >= accuracy_critical_threshold.v * 100
                warning == ~m.degradation_pct.nan /\
                    m.degradation_pct.v >= accuracy_degradation_threshold.v * 100
            IN  /\ critical => m.alert_level = "critical"
                /\ (~critical /\ warning) => m.alert_level = "warning"
                /\ (~critical /\ ~warning) => m.alert_level = "none"

\* an accuracy record whose degradation_pct is exactly the warning boundary,
\* below the critical one, and is a 'warning'
C6_Witness ==
    /\ Done("compare_performance")
    /\ \E i \in 1..Len(PerformanceDrift) :
          /\ PerformanceDrift[i][1] = "accuracy"
          /\ PerformanceDrift[i][2].degradation_pct.v
                = accuracy_degradation_threshold.v * 100
          /\ PerformanceDrift[i][2].degradation_pct.v
                < accuracy_critical_threshold.v * 100
          /\ PerformanceDrift[i][2].alert_level = "warning"

\* C7: the records of precision, recall and f1 have alert_level 'critical'
\* when degradation_pct >= 10, 'warning' when 5 <= degradation_pct < 10 and
\* 'none' otherwise, whatever the detector's accuracy thresholds
C7_OtherMetricsFixedThresholds ==
    \A i \in 1..Len(PerformanceDrift) :
        PerformanceDrift[i][1] \in {"precision", "recall", "f1"} =>
            LET m == PerformanceDrift[i][2]
                pct == m.degradation_pct.v
            IN  m.alert_level =
                    IF pct >= 10 * Scale THEN "critical"
                    ELSE IF pct >= 5 * Scale THEN "warning"
                    ELSE "none"

\* under thresholds other than the defaults, an f1 record at exactly 10 percent
\* is 'critical' while the accuracy record with the same degradation is not
C7_Witness ==
    /\ Done("compare_performance")
    /\ accuracy_critical_threshold # F((10 * Scale) \div 100)
    /\ \E i, j \in 1..Len(PerformanceDrift) :
          /\ PerformanceDrift[i][1] = "f1"
          /\ PerformanceDrift[i][2].degradation_pct = F(10 * Scale)
          /\ PerformanceDrift[i][2].alert_level = "critical"
          /\ PerformanceDrift[j][1] = "accuracy"
          /\ PerformanceDrift[j][2].degradation_pct = F(10 * Scale)
          /\ PerformanceDrift[j][2].alert_level = "warning"

\* C8: compare_distributions called with a test kind other than 'ks' and
\* 'mannwhitney' raises ValueError to the caller, whatever the samples
C8_UnknownKindRaises ==
    (pc = "returned" /\ call.op = "compare_distributions"
        /\ call.test_type \notin {"ks", "mannwhitney"})
    => (result.kind = "raise" /\ result.exc = "ValueError")

\* C9: compare_distributions with a recognized test kind, when either sample
\* is empty after dropping missing values, returns statistic = NaN,
\* p_value = NaN, significant = false and does not raise
C9_EmptySampleUndefinedResult ==
    (pc = "returned" /\ call.op = "compare_distributions"
        /\ call.test_type \in {"ks", "mannwhitney"}
        /\ (Len(dropna(call.baseline)) = 0 \/ Len(dropna(call.current)) = 0))
    => (/\ result.kind = "return"
        /\ result.value.statistic.nan
        /\ result.value.p_value.nan
        /\ result.value.significant = FALSE)

\* a call with a sample of missing values only against a sample with values
C9_Witness ==
    /\ Done("compare_distributions")
    /\ call.test_type = "mannwhitney"
    /\ Len(call.baseline) > 0
    /\ Len(dropna(call.baseline)) = 0
    /\ Len(dropna(call.current)) > 0
    /\ result.value.statistic.nan

\* C10: when the selected test routine fails inside compare_distributions
\* (the test kind being recognized), the call returns the undefined result
\* (NaN, NaN, false) and no exception reaches the caller
C10_TestFailureUndefinedResult ==
    (pc = "returned" /\ call.op = "compare_distributions"
        /\ routine.exc \notin {"none", "not called"})
    => (/\ result.kind = "return"
        /\ result.value = UndefinedResult)

\* C11: whenever compare_distributions ran its test ('ks' or 'mannwhitney')
\* and the routine gave a p-value, the returned significant flag is true
\* exactly when that p-value is below 0.05: a p-value of 0.05 itself is not
\* significant
C11_SignificantIffBelowAlpha ==
    (pc = "returned" /\ call.op = "compare_distributions" /\ routine.exc = "none")
        => /\ call.test_type \in {"ks", "mannwhitney"}
           /\ result.kind = "return"
           /\ result.value.p_value = routine.p_value
           /\ result.value.significant
                 <=> (~routine.p_value.nan /\ routine.p_value.v * 100 < 5 * Scale)

\* a Mann-Whitney test whose p-value is 0.05 exactly
C11_Witness ==
    /\ Done("compare_distributions")
    /\ call.test_type = "mannwhitney"
    /\ routine.exc = "none"
    /\ ~routine.p_value.nan
    /\ routine.p_value.v * 100 = 5 * Scale
    /\ ~result.value.significant

\* C12: calculate_psi returns NaN, and does not raise, whenever either sample
\* is empty after dropping the missing values, whatever the other sample is
\* (empty, constant or varied): the empty check comes before the
\* zero-variance rule
C12_EmptySampleNaN ==
    (pc = "returned" /\ call.op = "calculate_psi"
        /\ (Len(dropna(call.expected)) = 0 \/ Len(dropna(call.actual)) = 0))
        => result.kind = "return" /\ result.value.nan

\* an all-missing sample against a constant one: NaN, not the 0.0 of the
\* zero-variance rule
C12_Witness ==
    /\ Done("calculate_psi")
    /\ Len(call.expected) > 0
    /\ Len(dropna(call.expected)) = 0
    /\ Len(dropna(call.actual)) > 1
    /\ Cardinality(Elems(dropna(call.actual))) = 1
    /\ result.value.nan

\* C13: calculate_psi returns exactly 0.0 whenever both cleaned samples are
\* non-empty and the minimum and the maximum over both together are equal,
\* for any sample sizes and any bin count
C13_ZeroVarianceZero ==
    (pc = "returned" /\ call.op = "calculate_psi"
        /\ Len(dropna(call.expected)) > 0 /\ Len(dropna(call.actual)) > 0
        /\ Cardinality(Elems(dropna(call.expected)) \cup Elems(dropna(call.actual))) = 1)
        => result.kind = "return" /\ result.value = F(0)

\* constant samples of different sizes, one of them with missing values,
\* under a bin count other than the default
C13_Witness ==
    /\ Done("calculate_psi")
    /\ call.bins # bins_default
    /\ Len(dropna(call.expected)) = 1
    /\ Len(dropna(call.actual)) > 1
    /\ Len(call.expected) > Len(dropna(call.expected))
    /\ Cardinality(Elems(dropna(call.expected)) \cup Elems(dropna(call.actual))) = 1
    /\ result.value = F(0)

\* C14: for any non-empty numeric sample X with at least two distinct
\* values, calculate_psi(X, X) is below 0.1
C14_SelfComparisonBelowTenth ==
    (pc = "returned" /\ call.op = "calculate_psi"
        /\ call.expected = call.actual
        /\ ~HasCat(call.expected)
        /\ Cardinality(Elems(dropna(call.expected))) >= 2)
        => /\ result.kind = "return"
           /\ Lt(result.value, F(Scale \div 10))

\* a sample with a missing value and two distinct values, against itself,
\* over the default bins (most of them empty in both histograms)
C14_Witness ==
    /\ Done("calculate_psi")
    /\ call.expected = call.actual
    /\ call.bins = bins_default
    /\ Len(call.expected) > Len(dropna(call.expected))
    /\ Elems(dropna(call.expected)) = Numbers
    /\ result.value = F(0)

\* C15: for any two numeric samples that are non-empty after dropping the
\* missing values, calculate_psi returns a value >= 0
C15_PsiNonNegative ==
    (pc = "returned" /\ call.op = "calculate_psi"
        /\ Len(dropna(call.expected)) > 0 /\ Len(dropna(call.actual)) > 0
        /\ ~HasCat(call.expected) /\ ~HasCat(call.actual))
        => /\ result.kind = "return"
           /\ Ge(result.value, F(0))

\* samples of different sizes where a bin is empty in one histogram only, so
\* the epsilon floor enters the sum, and the PSI is positive
C15_Witness ==
    /\ Done("calculate_psi")
    /\ Len(dropna(call.expected)) > Len(dropna(call.actual))
    /\ Elems(dropna(call.expected)) = Numbers
    /\ Cardinality(Elems(dropna(call.actual))) = 1
    /\ Gt(result.value, F(0))

\* the feature names a calculate_feature_drift call asks for: the list given,
\* or the baseline's numeric columns when none is given
RequestedNames ==
    IF call.numeric_columns.given
    THEN {call.numeric_columns.value[i] : i \in 1..Len(call.numeric_columns.value)}
    ELSE {call.baseline_data[i][1] : i \in {j \in 1..Len(call.baseline_data) :
                                                ~HasCat(call.baseline_data[j][2])}}

\* the requested names that are columns of both datasets
RequestedInBoth ==
    {n \in RequestedNames :
        /\ \E i \in 1..Len(call.baseline_data) : call.baseline_data[i][1] = n
        /\ \E i \in 1..Len(call.current_data) : call.current_data[i][1] = n}

\* C16: calculate_feature_drift never raises because a requested feature is
\* absent from the baseline or the current dataset (whenever it raises, a
\* requested column present in both holds values no mean can be taken of);
\* the absent feature is skipped, so the keys of the returned mapping are
\* exactly the requested names that are columns of both datasets
C16_AbsentFeatureSkipped ==
    (pc = "returned" /\ call.op = "calculate_feature_drift")
        => /\ result.kind = "raise" =>
                 \E n \in RequestedInBoth :
                    \/ HasCat(DictGet(call.baseline_data, n))
                    \/ HasCat(DictGet(call.current_data, n))
           /\ result.kind = "return" =>
                 /\ {result.value[i][1] : i \in 1..Len(result.value)} = RequestedInBoth
                 /\ Len(result.value) = Cardinality(RequestedInBoth)

\* b, c and a are requested; c is in neither dataset and b in the baseline
\* only: the mapping holds a alone
C16_Witness ==
    /\ Done("calculate_feature_drift")
    /\ call.numeric_columns = Some(<<"b", "c", "a">>)
    /\ Columns(call.baseline_data) = {"a", "b"}
    /\ Columns(call.current_data) = {"a"}
    /\ Len(result.value) = 1
    /\ result.value[1][1] = "a"

\* the four metric names compare_performance recognizes
RecognizedMetrics == {"accuracy", "precision", "recall", "f1"}

\* C17: the key set of the mapping compare_performance returns is exactly the
\* set of names among accuracy, precision, recall and f1 that are keys of
\* both baseline_metrics and current_metrics; any other key, and a metric of
\* one input only, gives no record and no error
C17_PerformanceKeys ==
    (pc = "returned" /\ call.op = "compare_performance")
        => /\ result.kind = "return"
           /\ {result.value[i][1] : i \in 1..Len(result.value)}
                 = RecognizedMetrics \cap DOMAIN call.baseline_metrics
                                     \cap DOMAIN call.current_metrics
           /\ Len(result.value) = Cardinality({result.value[i][1] : i \in 1..Len(result.value)})

\* both inputs hold recall and the unrecognized auc: the mapping has the
\* record of recall alone
C17_Witness ==
    /\ Done("compare_performance")
    /\ "auc" \in DOMAIN call.baseline_metrics \cap DOMAIN call.current_metrics
    /\ Len(result.value) = 1
    /\ result.value[1][1] = "recall"

\* the alerts of the report by type, in the order of the list
FeatureAlerts == SelectSeq(ReportAlerts, LAMBDA a : a.type = "feature_drift")
PerformanceAlerts == SelectSeq(ReportAlerts, LAMBDA a : a.type = "performance_degradation")

\* the entries of the report's mappings that call for an alert, in mapping order
AlertingFeatures ==
    SelectSeq(FeatureDrift, LAMBDA e : e[2].psi_alert \/ e[2].ks_significant)
AlertingMetrics ==
    SelectSeq(<<"accuracy", "precision", "recall", "f1">>,
              LAMBDA n : \E i \in 1..Len(PerformanceDrift) :
                            /\ PerformanceDrift[i][1] = n
                            /\ PerformanceDrift[i][2].alert_level \in {"warning", "critical"})

\* C18: in the alerts list of every detect_drift report all feature_drift
\* alerts precede all performance_degradation alerts; the feature alerts
\* follow the iteration order of the feature-drift mapping, the performance
\* alerts the order accuracy, precision, recall, f1; every entry that calls
\* for an alert has its own alert, none is merged or removed
C18_AlertOrder ==
    Done("detect_drift")
        => /\ ReportAlerts = FeatureAlerts \o PerformanceAlerts
           /\ Len(FeatureAlerts) = Len(AlertingFeatures)
           /\ \A i \in 1..Len(FeatureAlerts) :
                 FeatureAlerts[i].feature = AlertingFeatures[i][1]
           /\ Len(PerformanceAlerts) = Len(AlertingMetrics)
           /\ \A i \in 1..Len(PerformanceAlerts) :
                 PerformanceAlerts[i].metric = AlertingMetrics[i]

\* a report with the feature alerts of b and a, in the order they were
\* requested, followed by the alerts of the four metrics
C18_Witness ==
    /\ Done("detect_drift")
    /\ Len(ReportAlerts) = 6
    /\ ReportAlerts[1].type = "feature_drift" /\ ReportAlerts[1].feature = "b"
    /\ ReportAlerts[2].type = "feature_drift" /\ ReportAlerts[2].feature = "a"
    /\ ReportAlerts[3].type = "performance_degradation"
    /\ ReportAlerts[3].metric = "accuracy"
    /\ ReportAlerts[6].type = "performance_degradation"
    /\ ReportAlerts[6].metric = "f1"

\* what every alert carries, and every performance alert
AlertCommonFields(a) ==
    /\ a.type \in {"feature_drift", "performance_degradation"}
    /\ a.level \in {"warning", "critical"}
    /\ "message" \in DOMAIN a
PerformanceAlertFields(a) ==
    a.type = "performance_degradation"
        => {"degradation_pct", "baseline", "current"} \subseteq DOMAIN a

\* C19 as stated: every alert has a type in {feature_drift,
\* performance_degradation}, a level in {warning, critical} and a message;
\* every feature_drift alert carries the psi and mean_shift_pct fields, and
\* every performance_degradation alert carries the degradation_pct, baseline
\* and current fields
C19_AlertFieldsAsStated ==
    \A i \in 1..Len(ReportAlerts) :
        LET a == ReportAlerts[i]
        IN  /\ AlertCommonFields(a)
            /\ PerformanceAlertFields(a)
            /\ a.type = "feature_drift" => {"psi", "mean_shift_pct"} \subseteq DOMAIN a

\* C19, amended: every alert has a type in {feature_drift,
\* performance_degradation}, a level in {warning, critical} and a message;
\* a feature_drift alert of a record whose psi_alert is true carries the
\* record's psi and mean_shift_pct, a feature_drift alert of a record with
\* the KS test alone significant carries its ks_p_value and neither psi nor
\* mean_shift_pct; every performance_degradation alert carries the
\* degradation_pct, baseline and current fields
C19_AlertFields ==
    \A i \in 1..Len(ReportAlerts) :
        LET a == ReportAlerts[i]
        IN  /\ AlertCommonFields(a)
            /\ PerformanceAlertFields(a)
            /\ a.type = "feature_drift" =>
                  LET m == DictGet(FeatureDrift, a.feature)
                  IN  IF m.psi_alert
                      THEN /\ {"psi", "mean_shift_pct"} \subseteq DOMAIN a
                           /\ a.psi = m.psi
                           /\ a.mean_shift_pct = m.mean_shift_pct
                      ELSE /\ "ks_p_value" \in DOMAIN a
                           /\ a.ks_p_value = m.ks_p_value
                           /\ "psi" \notin DOMAIN a
                           /\ "mean_shift_pct" \notin DOMAIN a

\* a report whose first alert comes from the KS test alone and carries
\* ks_p_value, followed by a performance alert
C19_Witness ==
    /\ Done("detect_drift")
    /\ Len(ReportAlerts) >= 2
    /\ ReportAlerts[1].type = "feature_drift"
    /\ "ks_p_value" \in DOMAIN ReportAlerts[1]
    /\ "psi" \notin DOMAIN ReportAlerts[1]
    /\ ReportAlerts[Len(ReportAlerts)].type = "performance_degradation"

\* C20: detect_drift never raises for data-quality reasons: for any baseline
\* and current datasets and any requested feature names (columns all
\* missing, empty, constant, of a single row, or with values that make the
\* statistical test or the mean/std computation fail) it returns a report
\* containing feature_drift, performance_drift, alerts and summary
C20_DetectDriftNeverRaises ==
    (pc = "returned" /\ call.op = "detect_drift")
        => /\ result.kind = "return"
           /\ DOMAIN result.value
                 = {"feature_drift", "performance_drift", "alerts", "summary"}

\* an invocation of detect_drift that has gone through its last step
Finished(i) ==
    frames[i].op = "detect_drift" /\ frames[i].pc \in {"returned", "raised"}

\* C21: detect_drift is deterministic and free of history: a call with the
\* datasets, metric mappings and feature names of a detect_drift call that
\* returned earlier on the same detector gives the report that call gave,
\* whatever detect_drift, calculate_feature_drift and compare_performance
\* calls were made in between
C21_HistoryFree ==
    \A i \in Invocations :
        (Finished(i) /\ previous.given /\ frames[i].args = previous.args)
            => frames[i].report = previous.report

\* a report with alerts is given a second time, after a
\* calculate_feature_drift call of another caller has returned
C21_Witness ==
    /\ previous.given
    /\ Finished(1)
    /\ frames[1].args = previous.args
    /\ frames[1].report.kind = "return"
    /\ Len(frames[1].report.value.alerts) > 0
    /\ frames[2].op = "calculate_feature_drift"
    /\ frames[2].pc = "returned"

\* C22: when several detect_drift invocations run concurrently on one
\* detector with their own arguments, under every interleaving of their
\* steps each returns the report it gives when run alone: no feature
\* record, performance record or alert of another invocation is in it
C22_ReportAsRunAlone ==
    \A i \in Invocations :
        Finished(i) =>
            frames[i].report = detect_drift(frames[i].args.baseline_data,
                                            frames[i].args.current_data,
                                            frames[i].args.baseline_metrics,
                                            frames[i].args.current_metrics,
                                            frames[i].args.numeric_columns)

\* an invocation has returned a report with alerts while another, made with
\* other datasets, is inside detect_drift with its own alerts generated
C22_Witness ==
    /\ Finished(1)
    /\ frames[1].report.kind = "return"
    /\ Len(frames[1].report.value.alerts) > 0
    /\ frames[2].op = "detect_drift"
    /\ frames[2].pc = "summary"
    /\ frames[2].args # frames[1].args
    /\ lists[2] = <<>>

\* C23: detect_drift, calculate_feature_drift and compare_performance leave
\* unchanged the baseline dataset, the current dataset, both metric
\* mappings, the requested feature names and the three thresholds of the
\* detector: no step of a call changes the arguments it was made with or the
\* configuration
C23_InputsAndConfigUnchanged ==
    [][/\ \A i \in Invocations :
              (frames[i].pc # "idle" /\ frames'[i].pc # "idle")
                  => frames'[i].args = frames[i].args
       /\ config' = config]_vars

\* a detect_drift call on a current dataset with missing values, feature
\* names left to the detector, has returned and its arguments are as passed
C23_Witness ==
    /\ Finished(1)
    /\ frames[1].report.kind = "return"
    /\ frames[1].args.current_data = MissingFrame
    /\ frames[1].args.numeric_columns = None
    /\ frames[2].op = "compare_performance"
    /\ frames[2].pc = "returned"
    /\ frames[2].args.current_metrics = PoorMetrics

\* the tokens written for the floats of the document
JsonTokens ==
    IF ~report_json.written THEN {}
    ELSE UNION (
        {{report_json.feature_drift[i][2][k] :
              k \in FloatFields \cap DOMAIN report_json.feature_drift[i][2]} :
          i \in 1..Len(report_json.feature_drift)}
        \cup {{report_json.performance_degradation[i][2][k] :
              k \in FloatFields \cap DOMAIN report_json.performance_degradation[i][2]} :
          i \in 1..Len(report_json.performance_degradation)}
        \cup {{report_json.alerts[i][k] :
              k \in FloatFields \cap DOMAIN report_json.alerts[i]} :
          i \in 1..Len(report_json.alerts)}
        \cup {{report_json.baseline_metrics[k] : k \in DOMAIN report_json.baseline_metrics},
              {report_json.current_metrics[k] : k \in DOMAIN report_json.current_metrics}})

\* C24: when a detect_drift report is written as JSON the way the repository
\* does it (json.dump with default=str), every finite float is written as a
\* plain number and every NaN of the report as a string or null, never as
\* the bare token NaN
C24_NoBareNaN ==
    pc = "saved" =>
        /\ \A t \in JsonTokens : t.token # "NaN"
        /\ \A i \in 1..Len(result.value.feature_drift) :
              \A k \in FloatFields \cap DOMAIN result.value.feature_drift[i][2] :
                 ~result.value.feature_drift[i][2][k].nan
                    => report_json.feature_drift[i][2][k]
                          = [token |-> "number",
                             value |-> result.value.feature_drift[i][2][k].v]


\* the load state a response of either application is about
LoadFlagOf(app) == IF app = "main" THEN main_app.model_loaded ELSE loader.model_loaded
ModelOf(app) == IF app = "main" THEN main_app.model ELSE loader.model

\* C25: GET /health answers status 'healthy' when the model is loaded and
\* 'degraded' when it is not, and its model_loaded field equals the load
\* state, in every state of the serving application.
C25_HealthStatus ==
    response.endpoint = "/health" =>
        /\ response.status = (IF LoadFlagOf(response.app) THEN "healthy" ELSE "degraded")
        /\ response.model_loaded = LoadFlagOf(response.app)

\* C26: while the load flag is false or the model object is absent, POST
\* /predict and POST /predict/batch with a valid body are answered 503 and
\* the model's predict is not invoked; so no prediction answers 200 then.
C26_NoPredictionUnloaded ==
    (response.endpoint \in {"/predict", "/predict/batch"} /\ (~ LoadFlagOf(response.app) \/ ModelOf(response.app) = "None")) =>
        /\ response.status_code = 503
        /\ ~ response.predicted

\* a batch prediction refused by the routers while the loader holds a model
\* object from a load that failed on the metadata
C26_Witness ==
    /\ response.endpoint = "/predict/batch"
    /\ response.app = "routers"
    /\ loader.model # "None"
    /\ ~ loader.model_loaded
    /\ response.status_code = 503

\* C27: once load_model has succeeded on the process-wide ModelLoader, no
\* construction, get_model_loader() or load_model() changes model,
\* model_metadata or model_loaded, no second object is made, and the model
\* file is not read again.
C27_LoadedOnce ==
    [][loader.model_loaded =>
          /\ loader'.model = loader.model
          /\ loader'.model_metadata = loader.model_metadata
          /\ loader'.model_loaded
          /\ loader'.instances = loader.instances
          /\ loader'.reads = loader.reads]_vars

\* load_model was called again after the directory got another pipeline
C27_Witness ==
    /\ loader.model_loaded
    /\ loader.skipped
    /\ loader.model = "pipeline_a"
    /\ disk = [model |-> "pipeline_b", metadata |-> "complete"]

\* the requested features, columns of both datasets, that have no value
\* left in the baseline or in the current dataset once the missing ones are
\* dropped
EmptyFeatures ==
    {n \in RequestedInBoth :
        \/ dropna(DictGet(call.baseline_data, n)) = <<>>
        \/ dropna(DictGet(call.current_data, n)) = <<>>}

\* C28: whenever calculate_feature_drift returns (directly or inside
\* detect_drift), a feature of both datasets whose baseline or current
\* sample is empty after dropping missing values has a record, with psi NaN,
\* psi_alert, ks_significant and has_drift false and drift_severity 'none';
\* in a report it has no alert, and it is counted in
\* total_features_analyzed and not in features_with_drift.
C28_EmptyFeatureRecord ==
    (Done("calculate_feature_drift") \/ Done("detect_drift")) =>
        \A n \in EmptyFeatures :
            /\ DictHas(FeatureDrift, n)
            /\ DictGet(FeatureDrift, n).psi.nan
            /\ ~ DictGet(FeatureDrift, n).psi_alert
            /\ ~ DictGet(FeatureDrift, n).ks_significant
            /\ ~ DictGet(FeatureDrift, n).has_drift
            /\ DictGet(FeatureDrift, n).drift_severity = "none"
            /\ Done("detect_drift") =>
                  /\ FeatureAlertsOf(n) = <<>>
                  /\ result.value.summary.total_features_analyzed = Len(FeatureDrift)
                  /\ result.value.summary.features_with_drift <= Len(FeatureDrift) - Cardinality(EmptyFeatures)

\* a report on two features: b is all missing in the baseline, a has drifted
C28_Witness ==
    /\ Done("detect_drift")
    /\ EmptyFeatures = {"b"}
    /\ dropna(DictGet(call.baseline_data, "b")) = <<>>
    /\ Len(DictGet(call.baseline_data, "b")) = MaxLen
    /\ result.value.summary.total_features_analyzed = 2
    /\ result.value.summary.features_with_drift = 1
    /\ Len(ReportAlerts) >= 1

\* C29: a detect_drift report has at most one feature_drift alert per
\* feature and one performance_degradation alert per metric; the number of
\* feature_drift alerts equals summary.features_with_drift, which is the
\* number of records with has_drift true and at most
\* summary.total_features_analyzed.
C29_AlertCounts ==
    Done("detect_drift") =>
        /\ \A i, j \in 1..Len(FeatureAlerts) : FeatureAlerts[i].feature = FeatureAlerts[j].feature => i = j
        /\ \A i, j \in 1..Len(PerformanceAlerts) : PerformanceAlerts[i].metric = PerformanceAlerts[j].metric => i = j
        /\ Len(FeatureAlerts) = result.value.summary.features_with_drift
        /\ result.value.summary.features_with_drift = Len(SelectSeq(FeatureDrift, LAMBDA e : e[2].has_drift))
        /\ result.value.summary.features_with_drift <= result.value.summary.total_features_analyzed

\* a report with a feature that is over the PSI threshold and significant
\* under KS at once, next to a feature without drift, and performance alerts
C29_Witness ==
    /\ Done("detect_drift")
    /\ \E i \in 1..Len(FeatureDrift) : FeatureDrift[i][2].psi_alert /\ FeatureDrift[i][2].ks_significant
    /\ result.value.summary.features_with_drift = 1
    /\ result.value.summary.total_features_analyzed = 2
    /\ Len(FeatureAlerts) = 1
    /\ Len(PerformanceAlerts) >= 2

\* the levels of the feature_drift alerts a report has for a feature
AlertLevelsOf(feature) == {FeatureAlertsOf(feature)[i].level : i \in 1..Len(FeatureAlertsOf(feature))}

\* C30: in a detect_drift report, under any configured psi_threshold, a
\* feature has a 'critical' feature_drift alert exactly when its record's
\* drift_severity is 'high', a 'warning' one exactly when it is 'medium' or
\* 'low', and none exactly when it is 'none'.
C30_SeverityMatchesAlert ==
    Done("detect_drift") =>
        \A i \in 1..Len(FeatureDrift) :
            /\ ("critical" \in AlertLevelsOf(FeatureDrift[i][1])) <=> (FeatureDrift[i][2].drift_severity = "high")
            /\ ("warning" \in AlertLevelsOf(FeatureDrift[i][1])) <=> (FeatureDrift[i][2].drift_severity \in {"medium", "low"})
            /\ (AlertLevelsOf(FeatureDrift[i][1]) = {}) <=> (FeatureDrift[i][2].drift_severity = "none")

\* a report whose feature is over 0.5 in PSI and significant under KS: the
\* record says 'high', the alert 'critical'
C30_Witness ==
    /\ Done("detect_drift")
    /\ \E i \in 1..Len(FeatureDrift) :
          /\ FeatureDrift[i][2].drift_severity = "high"
          /\ FeatureDrift[i][2].ks_significant
          /\ AlertLevelsOf(FeatureDrift[i][1]) = {"critical"}

====
